---------------------------- MODULE Spec2Model ----------------------------
(***************************************************************************)
(* A model of LogParser (src/utils/log_parser.py): the block parser        *)
(* parse_log, the payload decoders parse_count_info, parse_banknote_info   *)
(* and parse_error_info, and analyze_events.                               *)
(*                                                                         *)
(* Text is modelled as Python sees it: a sequence of characters (strings   *)
(* of length one), newlines included.  The regular expressions of the      *)
(* source are evaluated on those characters with the priorities of a       *)
(* backtracking matcher.  Russian message texts of the source are written  *)
(* as ASCII stand-ins (TLA+ strings are ASCII); each stand-in names the    *)
(* line that holds the original.                                           *)
(***************************************************************************)
EXTENDS Integers, Sequences, FiniteSets, TLC

VARIABLES
    op,               \* the operation this run calls
    pc,               \* "start", "done" (returned) or "raised" (exception)
    log_src,          \* the blocks the log text was written from
    log_text,         \* parse_log's argument
    entries,          \* parse_log's return value
    hex_data,         \* the decoders' argument
    count_result,     \* parse_count_info's return value
    banknote_result,  \* parse_banknote_info's return value
    error_result,     \* parse_error_info's return value
    parsed_logs,      \* analyze_events' first argument
    event_codes,      \* analyze_events' second argument
    analyze_result    \* analyze_events' return value

vars == <<op, pc, log_src, log_text, entries, hex_data, count_result,
          banknote_result, error_result, parsed_logs, event_codes,
          analyze_result>>

----------------------------------------------------------------------------
(* Characters and character classes of Python's re module.                 *)

DigitChars == {"0", "1", "2", "3", "4", "5", "6", "7", "8", "9"}

UpperHexChars == DigitChars \cup {"A", "B", "C", "D", "E", "F"}

\* \s on the characters of the model
SpaceChars == {" ", "\n", "\t"}

\* characters that are neither \w nor \s
PunctChars == {":", ".", "|", "(", ")", ",", "$"}

IsSpace(c) == c \in SpaceChars

\* \w: every character of the model that is neither whitespace nor punctuation
IsWord(c) == c \notin SpaceChars /\ c \notin PunctChars

\* [0-9A-F\s]
IsHexOrSpace(c) == c \in UpperHexChars \/ c \in SpaceChars

HexDigitValue(c) ==
    CASE c = "0" -> 0  [] c = "1" -> 1  [] c = "2" -> 2  [] c = "3" -> 3
      [] c = "4" -> 4  [] c = "5" -> 5  [] c = "6" -> 6  [] c = "7" -> 7
      [] c = "8" -> 8  [] c = "9" -> 9
      [] c \in {"A", "a"} -> 10  [] c \in {"B", "b"} -> 11
      [] c \in {"C", "c"} -> 12  [] c \in {"D", "d"} -> 13
      [] c \in {"E", "e"} -> 14  [] c \in {"F", "f"} -> 15
      [] OTHER -> -1

\* int(x, 10) of a run of decimal digits
RECURSIVE IntBase10(_)
IntBase10(x) ==
    IF x = <<>> THEN 0
    ELSE 10 * IntBase10(SubSeq(x, 1, Len(x) - 1)) + HexDigitValue(x[Len(x)])

\* whether int(x, 16) accepts the token (sign, 0x prefix and underscores are
\* not characters of the model); int raises ValueError for any other token
IsBase16(x) == x # <<>> /\ \A k \in 1..Len(x) : HexDigitValue(x[k]) >= 0

\* int(x, 16) of an accepted token
RECURSIVE IntBase16(_)
IntBase16(x) ==
    IF x = <<>> THEN 0
    ELSE 16 * IntBase16(SubSeq(x, 1, Len(x) - 1)) + HexDigitValue(x[Len(x)])

----------------------------------------------------------------------------
(* str methods.                                                            *)

\* s.strip()
Strip(s) ==
    LET keep == {k \in 1..Len(s) : ~IsSpace(s[k])}
    IN  IF keep = {} THEN <<>>
        ELSE SubSeq(s, CHOOSE a \in keep : \A k \in keep : a <= k,
                       CHOOSE b \in keep : \A k \in keep : k <= b)

\* s.split(sep) for a one-character separator
RECURSIVE SplitAt(_, _, _, _)
SplitAt(s, sep, from, k) ==
    LET found == {p \in k..Len(s) : s[p] = sep}
        next == CHOOSE p \in found : \A q \in found : p <= q
    IN  IF found = {} THEN <<SubSeq(s, from, Len(s))>>
        ELSE <<SubSeq(s, from, next - 1)>>
             \o SplitAt(s, sep, next + 1, next + 1)

SplitChar(s, sep) == SplitAt(s, sep, 1, 1)

\* s.split(): the maximal runs of non-whitespace characters
RECURSIVE SplitWords(_, _, _)
SplitWords(s, from, k) ==
    LET found == {p \in k..Len(s) : IsSpace(s[p])}
        next == CHOOSE p \in found : \A q \in found : p <= q
    IN  IF found = {}
        THEN IF from <= Len(s) THEN <<SubSeq(s, from, Len(s))>> ELSE <<>>
        ELSE (IF from < next THEN <<SubSeq(s, from, next - 1)>> ELSE <<>>)
             \o SplitWords(s, next + 1, next + 1)

Split(s) == SplitWords(s, 1, 1)

\* sep.join(parts)
RECURSIVE Join(_, _)
Join(parts, sep) ==
    IF parts = <<>> THEN <<>>
    ELSE IF Len(parts) = 1 THEN parts[1]
    ELSE parts[1] \o sep \o Join(Tail(parts), sep)

\* needle in s
Contains(s, needle) ==
    \E k \in 0..(Len(s) - Len(needle)) :
        SubSeq(s, k + 1, k + Len(needle)) = needle

----------------------------------------------------------------------------
(* The regular expressions of parse_log.  A position is the index of the   *)
(* last character consumed so far (0 before the first character).          *)

\* after a literal character c
LitEnds(s, P, c) == {p + 1 : p \in {q \in P : q < Len(s) /\ s[q + 1] = c}}

\* the classes of the header pattern: \d, [^\ ], [^,], \s and .
InClass(cls, c) ==
    CASE cls = "digit" -> c \in DigitChars
      [] cls = "not blank" -> c # " "
      [] cls = "not comma" -> c # ","
      [] cls = "space" -> IsSpace(c)
      [] cls = "any" -> c # "\n"

\* after one character of the class
OneEnds(s, P, cls) ==
    {p + 1 : p \in {q \in P : q < Len(s) /\ InClass(cls, s[q + 1])}}

\* after one or more characters of the class
PlusEnds(s, P, cls) ==
    {q \in 1..Len(s) :
        \E p \in P : p < q /\ \A k \in (p + 1)..q : InClass(cls, s[k])}

\* re.split(r'\n\s*\n', s): the leftmost match from each position, \s* greedy
SepEnd(s, p) ==
    LET stop == CHOOSE q \in p..Len(s) :
                    /\ \A k \in (p + 1)..q : IsSpace(s[k])
                    /\ q = Len(s) \/ ~IsSpace(s[q + 1])
        ends == {e \in (p + 1)..stop : s[e] = "\n"}
    IN  IF ends = {} THEN 0 ELSE CHOOSE e \in ends : \A f \in ends : f <= e

RECURSIVE SplitBlocksFrom(_, _, _)
SplitBlocksFrom(s, from, p) ==
    LET found == {q \in p..Len(s) : s[q] = "\n" /\ SepEnd(s, q) # 0}
        next == CHOOSE q \in found : \A r \in found : q <= r
    IN  IF found = {} THEN <<SubSeq(s, from, Len(s))>>
        ELSE <<SubSeq(s, from, next - 1)>>
             \o SplitBlocksFrom(s, SepEnd(s, next) + 1, SepEnd(s, next) + 1)

SplitBlocks(s) == SplitBlocksFrom(s, 1, 1)

\* re.match(r'(\d{2}:\d{2}:\d{2}\.\d{3})\|([^\ ]+)\s+(.+?)\s+\(([^,]+),(\d+)\):(.+)', line)
HeaderMatch(line) ==
    LET d2(P)  == OneEnds(line, OneEnds(line, P, "digit"), "digit")
        t1 == LitEnds(line, d2({0}), ":")
        t2 == LitEnds(line, d2(t1), ":")
        t3 == LitEnds(line, d2(t2), ".")
        t4 == OneEnds(line, d2(t3), "digit")
        g1 == LitEnds(line, t4, "|")
        g2 == PlusEnds(line, g1, "not blank")
        s1 == PlusEnds(line, g2, "space")
        g3 == PlusEnds(line, s1, "any")
        s2 == PlusEnds(line, g3, "space")
        g4 == PlusEnds(line, LitEnds(line, s2, "("), "not comma")
        g5 == PlusEnds(line, LitEnds(line, g4, ","), "digit")
        g6 == PlusEnds(line, LitEnds(line, LitEnds(line, g5, ")"), ":"), "any")
    IN  g6 # {}

\* header_match.group(1) of a matching line
HeaderTimestamp(line) == SubSeq(line, 1, 12)

\* re.match(r'\w+h\s+([0-9A-F\s]+)\s+.+', line): the span <<first, last>> of
\* group(1) in the match the backtracking matcher finds first (every
\* quantifier greedy, the leftmost quantifier decided first), or <<>> when
\* the line does not match
HexMatchSpan(line) ==
    LET n == Len(line)
        Hs == {i \in 2..n : line[i] = "h" /\ \A k \in 1..(i - 1) : IsWord(line[k])}
        Js(i) == {j \in (i + 1)..n : \A k \in (i + 1)..j : IsSpace(line[k])}
        Ks(j) == {k \in (j + 1)..n :
                     /\ \A m \in (j + 1)..k : IsHexOrSpace(line[m])
                     /\ k + 1 < n
                     /\ IsSpace(line[k + 1])}
        okJ(i) == {j \in Js(i) : Ks(j) # {}}
        okH == {i \in Hs : okJ(i) # {}}
        Max(S) == CHOOSE a \in S : \A b \in S : b <= a
    IN  IF okH = {} THEN <<>>
        ELSE LET i == Max(okH)
                 j == Max(okJ(i))
                 k == Max(Ks(j))
             IN  <<j + 1, k>>

\* hex_match.group(1) of a matching line
HexMatchGroup(line) == SubSeq(line, HexMatchSpan(line)[1], HexMatchSpan(line)[2])

----------------------------------------------------------------------------
(* parse_log.                                                              *)

\* datetime.strptime(timestamp, '%H:%M:%S.%f') of a text of the shape
\* dd:dd:dd.ddd: whether it raises ValueError, and the time of day it
\* returns, <<hour, minute, second, microsecond>>
TimeFields(timestamp) ==
    <<IntBase10(SubSeq(timestamp, 1, 2)), IntBase10(SubSeq(timestamp, 4, 5)),
      IntBase10(SubSeq(timestamp, 7, 8)),
      1000 * IntBase10(SubSeq(timestamp, 10, 12))>>

StrptimeRaises(timestamp) ==
    LET t == TimeFields(timestamp)
    IN  t[1] > 23 \/ t[2] > 59 \/ t[3] > 59

Strptime(timestamp) == TimeFields(timestamp)

\* the scan of the lines ended by the first line that is no dump line
RECURSIVE HexText_StopsAtNoMatch(_, _)
HexText_StopsAtNoMatch(lines, i) ==
    IF i > Len(lines) THEN <<>>
    ELSE IF Contains(lines[i], <<"H", "E", "X", " ", "D", "U", "M", "P">>)
         THEN HexText_StopsAtNoMatch(lines, i + 1)
         ELSE IF HexMatchSpan(lines[i]) = <<>> THEN <<>>
         ELSE (Strip(HexMatchGroup(lines[i])) \o <<" ">>)
              \o HexText_StopsAtNoMatch(lines, i + 1)

\* lines 37-43: the text hex_data accumulated over lines[1:]
RECURSIVE HexText(_, _)
HexText(lines, i) ==
    IF i > Len(lines) THEN <<>>
    ELSE IF Contains(lines[i], <<"H", "E", "X", " ", "D", "U", "M", "P">>)
         THEN HexText(lines, i + 1)
         ELSE IF HexMatchSpan(lines[i]) = <<>> THEN HexText(lines, i + 1)
         ELSE (Strip(HexMatchGroup(lines[i])) \o <<" ">>)
              \o HexText(lines, i + 1)

\* line 45: the tokens int(x, 16) is applied to
HexTokens(lines) == Split(Strip(HexText(lines, 2)))

\* lines 24-33: whether the loop body leaves the block by a continue
BlockSkipped(block) ==
    \/ Strip(block) = <<>>
    \/ Len(SplitChar(Strip(block), "\n")) < 2
    \/ ~HeaderMatch(SplitChar(Strip(block), "\n")[1])

\* lines 45 and 49: whether the loop body raises ValueError on the block
BlockRaises(block) ==
    LET lines == SplitChar(Strip(block), "\n")
        toks  == HexTokens(lines)
    IN  \/ \E k \in 1..Len(toks) : ~IsBase16(toks[k])
        \/ StrptimeRaises(HeaderTimestamp(lines[1]))

\* the event code read one element early
BlockEntry_CodeFromSecond(block) ==
    LET lines == SplitChar(Strip(block), "\n")
        toks  == HexTokens(lines)
        hex_values == [k \in 1..Len(toks) |-> IntBase16(toks[k])]
        timestamp == HeaderTimestamp(lines[1])
        entry == [timestamp |-> timestamp,
                  timestamp_obj |-> Strptime(timestamp),
                  hex_data |-> hex_values,
                  raw_block |-> block]
    IN  IF Len(hex_values) > 2
        THEN entry @@ [event_code |-> hex_values[2]]
        ELSE entry

\* lines 35-60: the entry of a block that is neither skipped nor raises.
\* The five groups copied verbatim from the header (identifier, event_type,
\* source_file, line_number, function) are not read by the parser, the
\* decoders or analyze_events and are left out of the record.
BlockEntry(block) ==
    LET lines == SplitChar(Strip(block), "\n")
        toks  == HexTokens(lines)
        hex_values == [k \in 1..Len(toks) |-> IntBase16(toks[k])]
        timestamp == HeaderTimestamp(lines[1])
        entry == [timestamp |-> timestamp,
                  timestamp_obj |-> Strptime(timestamp),
                  hex_data |-> hex_values,
                  raw_block |-> block]
    IN  IF Len(hex_values) > 2
        THEN entry @@ [event_code |-> hex_values[3]]
        ELSE entry

\* the loop left at the first skipped block
RECURSIVE ParseBlocks_StopAtSkipped(_, _, _)
ParseBlocks_StopAtSkipped(blocks, i, acc) ==
    IF i > Len(blocks) THEN [raised |-> FALSE, entries |-> acc]
    ELSE IF BlockSkipped(blocks[i]) THEN [raised |-> FALSE, entries |-> acc]
    ELSE IF BlockRaises(blocks[i]) THEN [raised |-> TRUE, entries |-> <<>>]
    ELSE ParseBlocks_StopAtSkipped(blocks, i + 1,
                                   Append(acc, BlockEntry(blocks[i])))

\* each entry put in front of the earlier ones
RECURSIVE ParseBlocks_NewestFirst(_, _, _)
ParseBlocks_NewestFirst(blocks, i, acc) ==
    IF i > Len(blocks) THEN [raised |-> FALSE, entries |-> acc]
    ELSE IF BlockSkipped(blocks[i])
         THEN ParseBlocks_NewestFirst(blocks, i + 1, acc)
    ELSE IF BlockRaises(blocks[i]) THEN [raised |-> TRUE, entries |-> <<>>]
    ELSE ParseBlocks_NewestFirst(blocks, i + 1,
                                 <<BlockEntry(blocks[i])>> \o acc)

\* lines 19-64: the loop over the blocks; [raised, entries]
RECURSIVE ParseBlocks(_, _, _)
ParseBlocks(blocks, i, acc) ==
    IF i > Len(blocks) THEN [raised |-> FALSE, entries |-> acc]
    ELSE IF BlockSkipped(blocks[i]) THEN ParseBlocks(blocks, i + 1, acc)
    ELSE IF BlockRaises(blocks[i]) THEN [raised |-> TRUE, entries |-> <<>>]
    ELSE ParseBlocks(blocks, i + 1, Append(acc, BlockEntry(blocks[i])))

ParseLog(text) == ParseBlocks(SplitBlocks(Strip(text)), 1, <<>>)

----------------------------------------------------------------------------
(* Python list and integer operations used by the decoders.                *)

\* data[i] for 0 <= i < len(data)
At(data, i) == data[i + 1]

\* data[a:b] for 0 <= a <= b
Slice(data, a, b) ==
    SubSeq(data, a + 1, IF b < Len(data) THEN b ELSE Len(data))

\* data[a:]
SliceFrom(data, a) == SubSeq(data, a + 1, Len(data))

\* x << n
ShiftLeft(x, n) == x * (2 ^ n)

data_start_index == 3

----------------------------------------------------------------------------
(* parse_count_info.  Message texts: "incomplete count data" stands for    *)
(* the text of lines 187 and 192, "unknown" for the format of line 196,    *)
(* "deposit" and "dispense" for the two directions of line 228.            *)

\* the second length check left out
CountDataIncomplete_FirstCheckOnly(hex) == Len(hex) < 4

\* lines 186-192: the two length checks
CountDataIncomplete(hex) ==
    Len(hex) < 4 \/ Len(hex) < data_start_index + 4

\* the totals read high byte first
CountKD_BigEndian(data) ==
    [insert_count_last |-> At(data, 0),
     deposit_count_last |-> At(data, 1),
     reject_count_last |-> At(data, 2),
     insert_try_count |-> At(data, 3),
     insert_count_total |-> ShiftLeft(At(data, 4), 8) + At(data, 5),
     deposit_count_total |-> ShiftLeft(At(data, 6), 8) + At(data, 7),
     reject_count_total |-> ShiftLeft(At(data, 8), 8) + At(data, 9)]

\* lines 198-208
CountKD(data) ==
    [insert_count_last |-> At(data, 0),
     deposit_count_last |-> At(data, 1),
     reject_count_last |-> At(data, 2),
     insert_try_count |-> At(data, 3)]
    @@ (IF Len(data) >= 10
        THEN [insert_count_total |-> At(data, 4) + ShiftLeft(At(data, 5), 8),
              deposit_count_total |-> At(data, 6) + ShiftLeft(At(data, 7), 8),
              reject_count_total |-> At(data, 8) + ShiftLeft(At(data, 9), 8)]
        ELSE <<>>)

\* the last counter read from the bytes of the one before it
CountKR1_Drum4FromDrum3(data) ==
    [reject_count |-> At(data, 0) + ShiftLeft(At(data, 1), 8),
     cassette_count |-> At(data, 2) + ShiftLeft(At(data, 3), 8),
     drum1_count |-> At(data, 4) + ShiftLeft(At(data, 5), 8),
     drum2_count |-> At(data, 6) + ShiftLeft(At(data, 7), 8),
     drum3_count |-> At(data, 8) + ShiftLeft(At(data, 9), 8),
     drum4_count |-> At(data, 8) + ShiftLeft(At(data, 9), 8)]

\* lines 210-218
CountKR1(data) ==
    [reject_count |-> At(data, 0) + ShiftLeft(At(data, 1), 8),
     cassette_count |-> At(data, 2) + ShiftLeft(At(data, 3), 8),
     drum1_count |-> At(data, 4) + ShiftLeft(At(data, 5), 8),
     drum2_count |-> At(data, 6) + ShiftLeft(At(data, 7), 8),
     drum3_count |-> At(data, 8) + ShiftLeft(At(data, 9), 8),
     drum4_count |-> At(data, 10) + ShiftLeft(At(data, 11), 8)]

\* the direction flag tested for non-zero instead of for 1
CountKR2_DirectionNonZero(data) ==
    [insert_count_last |-> At(data, 0),
     reject_count_last |-> At(data, 1),
     cassette_count_last |-> At(data, 2) + ShiftLeft(At(data, 3), 8),
     drum_direction |-> IF At(data, 4) # 0 THEN "deposit" ELSE "dispense",
     drum1_count_last |-> At(data, 5),
     drum2_count_last |-> At(data, 6),
     drum3_count_last |-> At(data, 7),
     drum4_count_last |-> At(data, 8),
     cassette_count_total |-> At(data, 9) + ShiftLeft(At(data, 10), 8),
     drum1_count_total |-> At(data, 11),
     drum2_count_total |-> At(data, 12),
     drum3_count_total |-> At(data, 13),
     drum4_count_total |-> At(data, 14)]

\* lines 220-240
CountKR2(data) ==
    [insert_count_last |-> At(data, 0),
     reject_count_last |-> At(data, 1),
     cassette_count_last |-> At(data, 2) + ShiftLeft(At(data, 3), 8),
     drum_direction |-> IF At(data, 4) = 1 THEN "deposit" ELSE "dispense",
     drum1_count_last |-> At(data, 5),
     drum2_count_last |-> At(data, 6),
     drum3_count_last |-> At(data, 7),
     drum4_count_last |-> At(data, 8),
     cassette_count_total |-> At(data, 9) + ShiftLeft(At(data, 10), 8),
     drum1_count_total |-> At(data, 11),
     drum2_count_total |-> At(data, 12),
     drum3_count_total |-> At(data, 13),
     drum4_count_total |-> At(data, 14)]

\* the KD range closed at 12 instead of open
CountFormat_KDThroughTwelve(data_length) ==
    IF data_length >= 10 /\ data_length <= 12 THEN "KD"
    ELSE IF data_length = 12 THEN "KR1"
    ELSE IF data_length >= 15 THEN "KR2"
    ELSE "unknown"

\* lines 198, 210, 220: the format chosen for a payload of data_length bytes
CountFormat(data_length) ==
    IF data_length >= 10 /\ data_length < 12 THEN "KD"
    ELSE IF data_length = 12 THEN "KR1"
    ELSE IF data_length >= 15 THEN "KR2"
    ELSE "unknown"

\* lines 186-242: the dictionary parse_count_info returns
ParseCountInfo(hex) ==
    IF CountDataIncomplete(hex) THEN [error |-> "incomplete count data"]
    ELSE LET data == SliceFrom(hex, data_start_index)
             format == CountFormat(Len(data))
         IN  [format |-> format, raw_data |-> data]
             @@ (CASE format = "KD" -> CountKD(data)
                   [] format = "KR1" -> CountKR1(data)
                   [] format = "KR2" -> CountKR2(data)
                   [] OTHER -> <<>>)

----------------------------------------------------------------------------
(* parse_banknote_info.  Message texts: "incomplete banknote data" stands  *)
(* for the text of lines 121 and 126, "unknown" for the default of line    *)
(* 148, "unknown error" for the default of line 162, the texts of          *)
(* ScErrorText for those of lines 151-160 and N/A for the text of line     *)
(* 171.                                                                    *)

\* the second length check off by one
BanknoteDataIncomplete_OffByOne(hex) ==
    Len(hex) < 58 \/ Len(hex) <= data_start_index + 58

\* lines 120-126: the two length checks
BanknoteDataIncomplete(hex) ==
    Len(hex) < 58 \/ Len(hex) < data_start_index + 58

\* lines 147-148: dest_map.get(code, default)
DestinationText(code) ==
    CASE code = 0 -> "Reject"  [] code = 1 -> "Cassette"
      [] code = 2 -> "Drum1"   [] code = 3 -> "Drum2"
      [] code = 4 -> "Drum3"   [] code = 5 -> "Drum4"
      [] OTHER -> "unknown"

\* the map without its last entry
ScErrorText_NoMismatchEntry(code) ==
    CASE code = 0 -> "none"
      [] code = 1 -> "recognition error"
      [] code = 2 -> "rejected: SC option"
      [] code = 3 -> "rejected: recognition information lost"
      [] code = 4 -> "rejected: chain"
      [] code = 5 -> "rejected: oversize"
      [] code = 6 -> "rejected: wrong stacker"
      [] code = 7 -> "rejected: batch amount full"
      [] code = 8 -> "rejected: denomination counter full"
      [] OTHER -> "unknown error"

\* lines 150-162: sc_error_map.get(code, default)
ScErrorText(code) ==
    CASE code = 0 -> "none"
      [] code = 1 -> "recognition error"
      [] code = 2 -> "rejected: SC option"
      [] code = 3 -> "rejected: recognition information lost"
      [] code = 4 -> "rejected: chain"
      [] code = 5 -> "rejected: oversize"
      [] code = 6 -> "rejected: wrong stacker"
      [] code = 7 -> "rejected: batch amount full"
      [] code = 8 -> "rejected: denomination counter full"
      [] code = 9 -> "rejected: banknote denomination mismatch"
      [] OTHER -> "unknown error"

\* chr(b) for 32 <= b <= 126; "grave" stands for chr(96), which a TLA+ string
\* cannot hold
PrintableAscii ==
    <<" ", "!", "\"", "#", "$", "%", "&", "'", "(", ")", "*", "+", ",", "-",
      ".", "/", "0", "1", "2", "3", "4", "5", "6", "7", "8", "9", ":", ";",
      "<", "=", ">", "?", "@", "A", "B", "C", "D", "E", "F", "G", "H", "I",
      "J", "K", "L", "M", "N", "O", "P", "Q", "R", "S", "T", "U", "V", "W",
      "X", "Y", "Z", "[", "\\", "]", "^", "_", "grave", "a", "b", "c", "d", "e",
      "f", "g", "h", "i", "j", "k", "l", "m", "n", "o", "p", "q", "r", "s",
      "t", "u", "v", "w", "x", "y", "z", "{", "|", "}", "~">>

Chr(b) == PrintableAscii[b - 31]

\* the upper limit of the serial length excluded
SerialText_Below32(serial_size, serial) ==
    IF serial_size > 0 /\ serial_size < 32
    THEN LET serial_bytes == Slice(serial, 0, serial_size)
         IN  [k \in 1..Len(serial_bytes) |->
                 IF 32 <= serial_bytes[k] /\ serial_bytes[k] <= 126
                 THEN Chr(serial_bytes[k]) ELSE "?"]
    ELSE <<"N", "/", "A">>

\* lines 164-171: serial_text, as a sequence of characters.  The except
\* branch of line 168 is unreachable (chr of 32..126 never raises).
SerialText(serial_size, serial) ==
    IF serial_size > 0 /\ serial_size <= 32
    THEN LET serial_bytes == Slice(serial, 0, serial_size)
         IN  [k \in 1..Len(serial_bytes) |->
                 IF 32 <= serial_bytes[k] /\ serial_bytes[k] <= 126
                 THEN Chr(serial_bytes[k]) ELSE "?"]
    ELSE <<"N", "/", "A">>

\* the serial slice one byte too long, reaching into the denomination info
BanknoteFields_SerialOverlapsDenom(data) ==
    [banknote_no |-> At(data, 0),
     recognition_code |-> Slice(data, 1, 5),
     recognition_error |-> Slice(data, 5, 7),
     encoder |-> Slice(data, 7, 11),
     note_destination |-> At(data, 11),
     reserved1 |-> At(data, 12),
     reserved2 |-> Slice(data, 13, 16),
     serial_size |-> At(data, 16),
     serial |-> Slice(data, 17, 50),
     denom_info |-> Slice(data, 49, 53),
     denom_use_flag |-> At(data, 53),
     decimal_point |-> At(data, 54),
     banknote_extens |-> Slice(data, 55, 57),
     sc_error |-> At(data, 57)]

\* lines 130-145
BanknoteFields(data) ==
    [banknote_no |-> At(data, 0),
     recognition_code |-> Slice(data, 1, 5),
     recognition_error |-> Slice(data, 5, 7),
     encoder |-> Slice(data, 7, 11),
     note_destination |-> At(data, 11),
     reserved1 |-> At(data, 12),
     reserved2 |-> Slice(data, 13, 16),
     serial_size |-> At(data, 16),
     serial |-> Slice(data, 17, 49),
     denom_info |-> Slice(data, 49, 53),
     denom_use_flag |-> At(data, 53),
     decimal_point |-> At(data, 54),
     banknote_extens |-> Slice(data, 55, 57),
     sc_error |-> At(data, 57)]

\* lines 120-173: the dictionary parse_banknote_info returns
ParseBanknoteInfo(hex) ==
    IF BanknoteDataIncomplete(hex) THEN [error |-> "incomplete banknote data"]
    ELSE LET data == SliceFrom(hex, data_start_index)
             banknote_info == BanknoteFields(data)
         IN  banknote_info
             @@ [destination_text |->
                     DestinationText(banknote_info.note_destination),
                 sc_error_text |-> ScErrorText(banknote_info.sc_error),
                 serial_text |-> SerialText(banknote_info.serial_size,
                                            banknote_info.serial)]

----------------------------------------------------------------------------
(* parse_error_info.  Message texts: "incomplete error data" stands for    *)
(* the text of line 256; the descriptions, the error_desc texts (Error,    *)
(* Open, Signal detected, Full) and the scopes of error_fields stand for   *)
(* those of lines 264-323, equal texts for equal texts; the texts of       *)
(* banknote_trans_fail_desc for those of lines 327-341 and "unknown error  *)
(* code: " for the prefix of line 362.                                     *)

\* the limit one element higher
ErrorDataIncomplete_BelowFive(hex) == Len(hex) < 5

\* lines 255-256
ErrorDataIncomplete(hex) == Len(hex) < 4

\* one value of error_fields
FieldInfo(name, description, error_desc, scope) ==
    [name |-> name, description |-> description, error_desc |-> error_desc,
     scope |-> scope]

\* lines 263-324: the value of key i is element i + 1
error_fields ==
    <<
      FieldInfo("reverse_motor", "Reverse motor",
                "Error", "KDS series only"),
      FieldInfo("insert_motor", "Insert motor",
                "Error", "KDS series only"),
      FieldInfo("main_trans_motor", "Main transport motor",
                "Error", "Common"),
      FieldInfo("insert_pusher", "Insert pusher",
                "Error", "KDS series only"),
      FieldInfo("reject_shutter", "Reject shutter",
                "Error", "KDS series only"),
      FieldInfo("rail_switch", "Rail switch",
                "Open", "Common"),
      FieldInfo("hopper_sensor", "Hopper sensor",
                "Signal detected", "Common"),
      FieldInfo("interval_control_sensor", "Interval control sensor",
                "Signal detected", "KDS series only"),
      FieldInfo("insert_sensor", "Insert sensor",
                "Signal detected", "Common"),
      FieldInfo("sepa_sensor", "SEPA sensor",
                "Signal detected", "Common"),
      FieldInfo("reject_counter_sensor", "Reject counter sensor",
                "Signal detected", "Common"),
      FieldInfo("deposit_counter_sensor", "Deposit counter sensor",
                "Signal detected", "Common"),
      FieldInfo("reject_pocket_sensor1", "Reject pocket sensor 1 (inner)",
                "Signal detected", "Common"),
      FieldInfo("reject_pocket_sensor2", "Reject pocket sensor 2 (outer)",
                "Signal detected", "KDS series only"),
      FieldInfo("upper_interface_board_connect", "Upper interface board connection",
                "Error", "KDS series only"),
      FieldInfo("reco_communication", "Recognition system communication",
                "Error", "Common"),
      FieldInfo("fpga_communication", "FPGA communication",
                "Error", "Common"),
      FieldInfo("hsc_communication", "HSC communication",
                "Error", "KDS series only"),
      FieldInfo("safebox_trans_motor", "Safebox transport motor",
                "Error", "KDS series only"),
      FieldInfo("safebox_door_switch", "Safebox door switch",
                "Open", "Common"),
      FieldInfo("safebox_deposit_counter_sensor", "Safebox deposit counter sensor",
                "Signal detected", "KDS series only"),
      FieldInfo("safebox_full_sensor", "Safebox full sensor",
                "Full", "Common"),
      FieldInfo("heatsealing_module", "Heat sealing module or envelope motor",
                "Error", "KDS series only"),
      FieldInfo("heatsealing_module_rail_switch", "Heat sealing module rail switch",
                "Open", "KDS series only"),
      FieldInfo("canvas_bag_switch", "Canvas bag switch or vinyl bag detection sensor",
                "Open", "Common"),
      FieldInfo("envelope_deposit", "Envelope deposit (canvas bag)",
                "Error", "KDS series only"),
      FieldInfo("insert_pusher_up_sensor", "Insert pusher upper position sensor",
                "Error", "KDS series only"),
      FieldInfo("insert_pusher_down_sensor", "Insert pusher lower position sensor",
                "Error", "KDS series only"),
      FieldInfo("reject_shutter_open_sensor", "Reject shutter open sensor",
                "Error", "KDS series only"),
      FieldInfo("reject_shutter_close_sensor", "Reject shutter close sensor",
                "Error", "KDS series only"),
      FieldInfo("insert_motor_check_sensor", "Insert motor check sensor",
                "Error", "KDS series only"),
      FieldInfo("main_trans_motor_check_sensor", "Main transport motor check sensor",
                "Error", "KDS series only"),
      FieldInfo("banknote_trans_fail", "Banknote transport failure",
                "Error", "Common"),
      FieldInfo("cassette_puser_error", "Cassette pusher error",
                "Error", "KD series only - cassette only"),
      FieldInfo("jam_sensor", "Jam sensor",
                "Signal detected", "KD series only"),
      FieldInfo("enter_sensor", "Enter sensor",
                "Signal detected", "KD series only"),
      FieldInfo("cassette_count_sensor", "Cassette counter sensor",
                "Error", "KD series only - cassette only"),
      FieldInfo("cassette_banknote_stay_error", "Cassette banknote stay error",
                "Error", "KD series only - cassette only"),
      FieldInfo("l_path_sensor", "L path sensor",
                "Error", "KR10 series only"),
      FieldInfo("l_jam1_sensor", "L1 jam sensor",
                "Error", "KR10 series only"),
      FieldInfo("l_jam2_sensor", "L2 jam sensor",
                "Error", "KR10 series only"),
      FieldInfo("l_jam3_sensor", "L3 jam sensor",
                "Error", "KR10 series only"),
      FieldInfo("drum1_sensor", "Drum 1 sensor",
                "Error", "KR10 series only"),
      FieldInfo("drum2_sensor", "Drum 2 sensor",
                "Error", "KR10 series only"),
      FieldInfo("drum3_sensor", "Drum 3 sensor",
                "Error", "KR10 series only"),
      FieldInfo("drum4_sensor", "Drum 4 sensor",
                "Error", "KR10 series only"),
      FieldInfo("l_door_switch", "L door switch",
                "Open", "KR10 series only"),
      FieldInfo("l_rail_switch", "L rail switch",
                "Open", "KR10 series only"),
      FieldInfo("drum1_full_pi", "Drum 1 full indicator",
                "Error", "KR10 series only"),
      FieldInfo("drum2_full_pi", "Drum 2 full indicator",
                "Error", "KR10 series only"),
      FieldInfo("drum3_full_pi", "Drum 3 full indicator",
                "Error", "KR10 series only"),
      FieldInfo("drum4_full_pi", "Drum 4 full indicator",
                "Error", "KR10 series only"),
      FieldInfo("reserved1", "Reserved",
                "", ""),
      FieldInfo("reserved2", "Reserved",
                "", ""),
      FieldInfo("reserved3", "Reserved",
                "", ""),
      FieldInfo("reserved4", "Reserved",
                "", ""),
      FieldInfo("reserved5", "Reserved",
                "", ""),
      FieldInfo("reserved6", "Reserved",
                "", ""),
      FieldInfo("reserved7", "Reserved",
                "", ""),
      FieldInfo("reserved8", "Reserved",
                "", "")
    >>

\* the table without its last entry
banknote_trans_fail_desc_NoDrum4(field_value) ==
    CASE field_value = 0 -> "none"
      [] field_value = 1 -> "BID mismatch error"
      [] field_value = 2 -> "wrong stacker error (upper module separator)"
      [] field_value = 3 -> "banknote tear error"
      [] field_value = 4 -> "double chain error"
      [] field_value = 5 -> "dark chain error"
      [] field_value = 6 -> "white chain error"
      [] field_value = 7 -> "insert error"
      [] field_value = 8 -> "batch amount full"
      [] field_value = 16 -> "wrong stacker error on reject (dispense)"
      [] field_value = 17 -> "cassette wrong stacker error"
      [] field_value = 18 -> "drum 1 wrong stacker error"
      [] field_value = 19 -> "drum 2 wrong stacker error"
      [] field_value = 20 -> "drum 3 wrong stacker error"
      [] OTHER -> "unknown error code: " \o ToString(field_value)

\* lines 326-342 and 362: banknote_trans_fail_desc.get(field_value, default)
banknote_trans_fail_desc(field_value) ==
    CASE field_value = 0 -> "none"
      [] field_value = 1 -> "BID mismatch error"
      [] field_value = 2 -> "wrong stacker error (upper module separator)"
      [] field_value = 3 -> "banknote tear error"
      [] field_value = 4 -> "double chain error"
      [] field_value = 5 -> "dark chain error"
      [] field_value = 6 -> "white chain error"
      [] field_value = 7 -> "insert error"
      [] field_value = 8 -> "batch amount full"
      [] field_value = 16 -> "wrong stacker error on reject (dispense)"
      [] field_value = 17 -> "cassette wrong stacker error"
      [] field_value = 18 -> "drum 1 wrong stacker error"
      [] field_value = 19 -> "drum 2 wrong stacker error"
      [] field_value = 20 -> "drum 3 wrong stacker error"
      [] field_value = 21 -> "drum 4 wrong stacker error"
      [] OTHER -> "unknown error code: " \o ToString(field_value)

\* the loop left one field early
LoopBreaks_OneEarly(i, data) == i + 1 >= Len(data)

\* lines 348-349
LoopBreaks(i, data) == i >= Len(data)

\* the transport failure flag active for the value 0 as well
IsTransFail_AnyValue(field_name, field_value) ==
    field_name = "banknote_trans_fail" /\ field_value >= 0

\* line 361
IsTransFail(field_name, field_value) ==
    field_name = "banknote_trans_fail" /\ field_value > 0

\* every non-zero value taken for an error
IsGenericError_NonZero(field_value, field_info) ==
    field_value # 0 /\ field_info.error_desc # ""

\* line 366
IsGenericError(field_value, field_info) ==
    field_value = 1 /\ field_info.error_desc # ""

\* lines 350-368: the body of the loop for key i: the key and the item it
\* stores in result['fields'], and the texts it appends to active_errors
\* (one or none)
LoopBody(data, i) ==
    LET field_info == error_fields[i + 1]
        field_value == At(data, i)
        field_name == field_info.name
        field == [value |-> field_value,
                  description |-> field_info.description,
                  error_desc |-> field_info.error_desc,
                  scope |-> field_info.scope]
        specific_desc == banknote_trans_fail_desc(field_value)
    IN  IF IsTransFail(field_name, field_value)
        THEN [key |-> field_name,
              item |-> field @@ [specific_desc |-> specific_desc],
              appended |->
                  <<field_info.description \o ": " \o specific_desc>>]
        ELSE IF IsGenericError(field_value, field_info)
        THEN [key |-> field_name,
              item |-> field,
              appended |->
                  <<field_info.description \o ": " \o field_info.error_desc>>]
        ELSE [key |-> field_name, item |-> field, appended |-> <<>>]

\* lines 347-349: the number of keys the loop runs for, the keys before the
\* first one that breaks
LoopCount(data) ==
    Cardinality({i \in 0..Len(error_fields) - 1 :
                    \A j \in 0..i : ~LoopBreaks(j, data)})

\* the texts in the reverse of the order they were appended in
ActiveErrors_Reversed(steps) ==
    LET Appends(step) == step.appended # <<>>
        appending == SelectSeq(steps, Appends)
    IN  [k \in 1..Len(appending) |->
            appending[Len(appending) + 1 - k].appended[1]]

\* lines 345, 363, 367: active_errors after the loop, the texts appended by
\* its steps in the order of the steps
ActiveErrors(steps) ==
    LET Appends(step) == step.appended # <<>>
        appending == SelectSeq(steps, Appends)
    IN  [k \in 1..Len(appending) |-> appending[k].appended[1]]

\* lines 255-373: the dictionary parse_error_info returns.  A dict keeps the
\* order of insertion: fields is the sequence of its keys, each with its
\* item; the names of error_fields are pairwise different, so that no step
\* of the loop assigns to a key already there.
ParseErrorInfo(hex) ==
    IF ErrorDataIncomplete(hex) THEN [error |-> "incomplete error data"]
    ELSE LET data == SliceFrom(hex, data_start_index)
             steps == [k \in 1..LoopCount(data) |-> LoopBody(data, k - 1)]
             active_errors == ActiveErrors(steps)
         IN  [raw_data |-> data,
              errors_detected |->
                  \E k \in 1..Len(steps) : steps[k].appended # <<>>,
              fields |->
                  [k \in 1..Len(steps) |->
                      [key |-> steps[k].key, item |-> steps[k].item]],
              active_errors |-> active_errors,
              active_error_count |-> Len(active_errors)]

----------------------------------------------------------------------------
(* analyze_events.  A dict is modelled by the function from its keys to    *)
(* its values.  The argument event_codes is the empty sequence for None    *)
(* (the argument left out) and the sequence of the one dict for a dict.    *)
(* None as a value of the result is the empty sequence.  The descriptions  *)
(* "count result", "count (banknote)" and "error" stand for the texts of   *)
(* lines 80-82.                                                            *)

None == <<>>

\* lines 79-83: the default of event_codes, keys 0x24, 0x23 and 0x30
DefaultEventCodes ==
    (36 :> "count result") @@ (35 :> "count (banknote)") @@ (48 :> "error")

\* lines 78-83
EventCodes(codes_arg) ==
    IF codes_arg = None THEN DefaultEventCodes ELSE codes_arg[1]

\* an entry put into every group when its code is known
EventsByCode_EveryGroup(logs, codes) ==
    [code \in DOMAIN codes |->
        SelectSeq(logs,
                  LAMBDA entry : /\ "event_code" \in DOMAIN entry
                                 /\ entry.event_code \in DOMAIN codes)]

\* lines 90-96: results['events_by_code'], an empty list for every code and
\* every entry with a known code appended to the list of its code
EventsByCode(logs, codes) ==
    [code \in DOMAIN codes |->
        SelectSeq(logs,
                  LAMBDA entry : /\ "event_code" \in DOMAIN entry
                                 /\ entry.event_code \in DOMAIN codes
                                 /\ entry.event_code = code)]

\* datetime comparison t <= u, both of the date strptime gives (1900-01-01)
TimeLE(t, u) ==
    \/ t[1] < u[1]
    \/ t[1] = u[1] /\ t[2] < u[2]
    \/ t[1] = u[1] /\ t[2] = u[2] /\ t[3] < u[3]
    \/ t[1] = u[1] /\ t[2] = u[2] /\ t[3] = u[3] /\ t[4] <= u[4]

Timestamps(events) == {events[k].timestamp_obj : k \in 1..Len(events)}

\* the timestamp of the first event of the list
FirstOccurrence_FirstInList(events) ==
    IF events # <<>> THEN events[1].timestamp_obj ELSE None

\* line 103
FirstOccurrence(events) ==
    IF events # <<>>
    THEN CHOOSE t \in Timestamps(events) :
             \A u \in Timestamps(events) : TimeLE(t, u)
    ELSE None

\* line 104
LastOccurrence(events) ==
    IF events # <<>>
    THEN CHOOSE t \in Timestamps(events) :
             \A u \in Timestamps(events) : TimeLE(u, t)
    ELSE None

\* a summary only for the codes that have events
EventSummary_NonEmptyOnly(events_by_code, codes) ==
    [code \in {c \in DOMAIN codes : events_by_code[c] # <<>>} |->
        [description |-> codes[code],
         count |-> Len(events_by_code[code]),
         first_occurrence |-> FirstOccurrence(events_by_code[code]),
         last_occurrence |-> LastOccurrence(events_by_code[code])]]

\* lines 98-105: results['event_summary']
EventSummary(events_by_code, codes) ==
    [code \in DOMAIN codes |->
        [description |-> codes[code],
         count |-> Len(events_by_code[code]),
         first_occurrence |-> FirstOccurrence(events_by_code[code]),
         last_occurrence |-> LastOccurrence(events_by_code[code])]]

\* lines 78-107: the dictionary analyze_events returns
AnalyzeEvents(logs, codes_arg) ==
    LET codes == EventCodes(codes_arg)
        events_by_code == EventsByCode(logs, codes)
    IN  [events_by_code |-> events_by_code,
         event_summary |-> EventSummary(events_by_code, codes)]

----------------------------------------------------------------------------
(* main_window.py.                                                         *)

\* lines 287-289 of main_window.py: each byte formatted 02X, joined by blanks
HexDigitChar(d) == PrintableAscii[IF d < 10 THEN d + 17 ELSE d + 24]

RECURSIVE UpperHex(_)
UpperHex(b) ==
    IF b < 16 THEN <<HexDigitChar(b)>>
    ELSE Append(UpperHex(b \div 16), HexDigitChar(b % 16))

Format02X(b) == IF b < 16 THEN <<"0">> \o UpperHex(b) ELSE UpperHex(b)

HexStr(hex) == Join([k \in 1..Len(hex) |-> Format02X(hex[k])], <<" ">>)

\* lines 303-308 of main_window.py: the event codes an entry is decoded for,
\* by parse_count_info, parse_banknote_info and parse_error_info
DecodedEventCodes == {36, 35, 72}

----------------------------------------------------------------------------
(* The inputs of the runs.  A log text is written from a sequence of       *)
(* blocks; a block is a header line and dump lines; a dump line is written *)
(* from its label, its byte tokens and its trailing text.                  *)

MaxBlocks == 2
MaxLines == 2
MaxCountLen == 20
MaxBanknoteLen == 62
MaxErrorLen == 64
MaxEntries == 3

HeaderTail == <<"|", "I", " ", "E", " ", "(", "f", ",", "1", ")", ":", "g">>

\* 12:34:56.789|I E (f,1):g
GoodHeader ==
    <<"1", "2", ":", "3", "4", ":", "5", "6", ".", "7", "8", "9">> \o HeaderTail

\* 25:61:61.000|I E (f,1):g : the header pattern matches, the digits are no
\* time of day
BadTimeHeader ==
    <<"2", "5", ":", "6", "1", ":", "6", "1", ".", "0", "0", "0">> \o HeaderTail

\* 12:34|I E (f,1):g : the header pattern does not match
NoMatchHeader == <<"1", "2", ":", "3", "4">> \o HeaderTail

Headers == {GoodHeader, BadTimeHeader, NoMatchHeader}

Label == <<"0", "0", "h">>

\* 00h 10 02 24  ..$
PlainLine ==
    [label |-> Label, toks |-> <<<<"1", "0">>, <<"0", "2">>, <<"2", "4">>>>,
     gap |-> <<" ", " ">>, trail |-> <<".", ".", "$">>]

\* 00h 41 20 42  A B : the trailing text starts with a word of hex digits
AsciiLine ==
    [label |-> Label, toks |-> <<<<"4", "1">>, <<"2", "0">>, <<"4", "2">>>>,
     gap |-> <<" ", " ">>, trail |-> <<"A", " ", "B">>]

\* 00h 1FF 02 x. : a token of three hex digits
WideLine ==
    [label |-> Label, toks |-> <<<<"1", "F", "F">>, <<"0", "2">>>>,
     gap |-> <<" ">>, trail |-> <<"x", ".">>]

\* 00h 01 ZZ 03 x. : a token that is no hexadecimal numeral
MalformedLine ==
    [label |-> Label, toks |-> <<<<"0", "1">>, <<"Z", "Z">>, <<"0", "3">>>>,
     gap |-> <<" ">>, trail |-> <<"x", ".">>]

\* 00h 05 06 HEX DUMP : a dump line that holds the marker
MarkerLine ==
    [label |-> Label, toks |-> <<<<"0", "5">>, <<"0", "6">>>>,
     gap |-> <<" ">>, trail |-> <<"H", "E", "X", " ", "D", "U", "M", "P">>]

\* note : a line that is no dump line
TextLine ==
    [label |-> <<>>, toks |-> <<>>, gap |-> <<>>, trail |-> <<"n", "o", "t", "e">>]

SampleLines ==
    {PlainLine, AsciiLine, WideLine, MalformedLine, MarkerLine, TextLine}

RenderLine(l) ==
    IF l.label = <<>> THEN l.trail
    ELSE l.label \o <<" ">> \o Join(l.toks, <<" ">>) \o l.gap \o l.trail

RenderBlock(b) ==
    Join(<<b.header>> \o [k \in 1..Len(b.lines) |-> RenderLine(b.lines[k])],
         <<"\n">>)

\* the blank lines between block i and block i + 1
Separator(i) ==
    IF i % 2 = 1 THEN <<"\n", "\n">> ELSE <<"\n", " ", "\t", "\n", "\n">>

RECURSIVE RenderBlocks(_, _)
RenderBlocks(src, i) ==
    IF i > Len(src) THEN <<>>
    ELSE IF i = Len(src) THEN RenderBlock(src[i])
    ELSE RenderBlock(src[i]) \o Separator(i) \o RenderBlocks(src, i + 1)

\* the text of a file: the blocks, blank lines between them, a final newline
RenderText(src) == RenderBlocks(src, 1) \o <<"\n">>

SeqsUpTo(S, n) == UNION {[1..k -> S] : k \in 0..n}

FocusBlocks ==
    {[header |-> h, lines |-> ls] :
        h \in Headers, ls \in SeqsUpTo(SampleLines, MaxLines)}

ContextBlocks ==
    {[header |-> GoodHeader, lines |-> <<PlainLine>>],
     [header |-> BadTimeHeader, lines |-> <<PlainLine>>]}

\* every sequence of at most MaxBlocks blocks, one of them any block and the
\* others context blocks
LogSources ==
    {<<>>} \cup
    UNION {{[i \in 1..n |-> IF i = f THEN fb ELSE ctx[i]] :
               f \in 1..n, fb \in FocusBlocks, ctx \in [1..n -> ContextBlocks]} :
           n \in 1..MaxBlocks}

\* byte sequences: a ramp of distinct values, all 255, the example of the
\* specification, and each of them with one byte replaced
ByteSamples == {0, 1, 255}

Ramp(n) == [i \in 1..n |-> 16 + i]

Full(n) == [i \in 1..n |-> 255]

KDExample == <<16, 2, 36, 5, 8, 3, 2, 16, 0, 100, 0, 50, 0>>

CountInputs ==
    LET bases == {KDExample} \cup {Ramp(n) : n \in 0..MaxCountLen}
                 \cup {Full(n) : n \in 0..MaxCountLen}
    IN  bases \cup {[b EXCEPT ![p] = v] :
                       b \in bases, p \in 1..MaxCountLen, v \in ByteSamples}

ByteValues == 0..255

\* the 32 bytes of a serial field: ABCDE, bytes at and beyond both ends of
\* the printable range, then letters
SerialSample ==
    <<65, 66, 67, 68, 69, 31, 32, 126, 127, 0, 255>>
    \o [i \in 1..21 |-> 70 + i]

\* a banknote message of 61 bytes with serial length n and the sample serial
BanknoteWithSerial(n) ==
    [i \in 1..61 |->
        IF i = 20 THEN n
        ELSE IF i \in 21..52 THEN SerialSample[i - 20]
        ELSE 16 + i]

\* banknote messages: ramps of every length; the long ones with one byte
\* replaced; every serial length with the sample serial; serial length 5
\* with one serial byte replaced; every destination byte and every status
\* byte
BanknoteInputs ==
    LET long == {Ramp(n) : n \in 61..MaxBanknoteLen}
    IN  {Ramp(n) : n \in 0..MaxBanknoteLen}
        \cup {[b EXCEPT ![p] = v] :
                 b \in long, p \in 1..MaxBanknoteLen, v \in ByteSamples}
        \cup {BanknoteWithSerial(n) : n \in ByteValues}
        \cup {[BanknoteWithSerial(5) EXCEPT ![20 + k] = 0] : k \in 1..32}
        \cup {[Ramp(61) EXCEPT ![15] = v] : v \in ByteValues}
        \cup {[Ramp(61) EXCEPT ![61] = v] : v \in ByteValues}

Uniform(n, v) == [i \in 1..n |-> v]

ErrorValueSamples == {0, 1, 2, 3, 9, 15, 16, 21, 22, 255}

\* error messages: all 0, all 1 and all 3 of every length; the longest of
\* all 0 and of all 1 with one byte replaced, as they are and with 3 in
\* flag 32 (element 36); every value in flag 0, flag 32 and flag 52
\* (elements 4, 36 and 56) of the longest of all 0
ErrorInputs ==
    LET long == {Uniform(MaxErrorLen, 0), Uniform(MaxErrorLen, 1)}
    IN  {Uniform(n, v) : n \in 0..MaxErrorLen, v \in {0, 1, 3}}
        \cup {[b EXCEPT ![p] = v] :
                 b \in long, p \in 1..MaxErrorLen, v \in ErrorValueSamples}
        \cup {[b EXCEPT ![36] = 3, ![p] = v] :
                 b \in long, p \in (1..MaxErrorLen) \ {36},
                 v \in ErrorValueSamples}
        \cup {[Uniform(MaxErrorLen, 0) EXCEPT ![p] = v] :
                 p \in {4, 36, 56}, v \in ByteValues}

\* a dump line whose third byte is the token tok
CodeLine(tok) == [PlainLine EXCEPT !.toks[3] = tok]

\* 23:59:59.900|I E (f,1):g and 00:00:00.100|I E (f,1):g
LateHeader ==
    <<"2", "3", ":", "5", "9", ":", "5", "9", ".", "9", "0", "0">> \o HeaderTail

EarlyHeader ==
    <<"0", "0", ":", "0", "0", ":", "0", "0", ".", "1", "0", "0">> \o HeaderTail

\* the entry parse_log returns for a block
EntryOf(header, line) ==
    BlockEntry(RenderBlock([header |-> header, lines |-> <<line>>]))

\* entries of two times of day, with the event codes 0x24, 0x48, 0x23 and
\* 0x30 and with no event code
SampleEntries ==
    {EntryOf(h, l) : h \in {LateHeader, EarlyHeader},
                     l \in {PlainLine, CodeLine(<<"4", "8">>), TextLine}}
    \cup {EntryOf(EarlyHeader, CodeLine(<<"2", "3">>)),
          EntryOf(LateHeader, CodeLine(<<"3", "0">>))}

\* event_codes: left out, an empty dict, a dict of one code and a dict of
\* the three codes of DecodedEventCodes
EventCodeArguments ==
    {None,
     <<<<>>>>,
     <<(72 :> "error")>>,
     <<(36 :> "count") @@ (35 :> "banknote") @@ (72 :> "error")>>}

----------------------------------------------------------------------------
(* The runs: one call of one operation on one input.                       *)

NoResult == <<>>

Init ==
    /\ pc = "start"
    /\ entries = <<>>
    /\ count_result = NoResult
    /\ banknote_result = NoResult
    /\ error_result = NoResult
    /\ analyze_result = NoResult
    /\ \/ /\ op = "parse_log"
          /\ log_src \in LogSources
          /\ log_text = RenderText(log_src)
          /\ hex_data = <<>>
          /\ parsed_logs = <<>>
          /\ event_codes = None
       \/ /\ op = "parse_count_info"
          /\ hex_data \in CountInputs
          /\ log_src = <<>>
          /\ log_text = <<>>
          /\ parsed_logs = <<>>
          /\ event_codes = None
       \/ /\ op = "parse_banknote_info"
          /\ hex_data \in BanknoteInputs
          /\ log_src = <<>>
          /\ log_text = <<>>
          /\ parsed_logs = <<>>
          /\ event_codes = None
       \/ /\ op = "parse_error_info"
          /\ hex_data \in ErrorInputs
          /\ log_src = <<>>
          /\ log_text = <<>>
          /\ parsed_logs = <<>>
          /\ event_codes = None
       \/ /\ op = "analyze_events"
          /\ parsed_logs \in SeqsUpTo(SampleEntries, MaxEntries)
          /\ event_codes \in EventCodeArguments
          /\ log_src = <<>>
          /\ log_text = <<>>
          /\ hex_data = <<>>

\* a call that takes the first three elements out of the list it is given
parse_count_info_ConsumesHeader ==
    /\ op = "parse_count_info"
    /\ pc = "start"
    /\ pc' = "done"
    /\ count_result' = ParseCountInfo(hex_data)
    /\ hex_data' = SliceFrom(hex_data, data_start_index)
    /\ UNCHANGED <<op, log_src, log_text, entries, banknote_result,
                   error_result, parsed_logs, event_codes, analyze_result>>

parse_log ==
    /\ op = "parse_log"
    /\ pc = "start"
    /\ LET r == ParseLog(log_text)
       IN  /\ pc' = IF r.raised THEN "raised" ELSE "done"
           /\ entries' = r.entries
    /\ UNCHANGED <<op, log_src, log_text, hex_data, count_result,
                   banknote_result, error_result, parsed_logs, event_codes,
                   analyze_result>>

parse_count_info ==
    /\ op = "parse_count_info"
    /\ pc = "start"
    /\ pc' = "done"
    /\ count_result' = ParseCountInfo(hex_data)
    /\ UNCHANGED <<op, log_src, log_text, entries, hex_data, banknote_result,
                   error_result, parsed_logs, event_codes, analyze_result>>

parse_banknote_info ==
    /\ op = "parse_banknote_info"
    /\ pc = "start"
    /\ pc' = "done"
    /\ banknote_result' = ParseBanknoteInfo(hex_data)
    /\ UNCHANGED <<op, log_src, log_text, entries, hex_data, count_result,
                   error_result, parsed_logs, event_codes, analyze_result>>

parse_error_info ==
    /\ op = "parse_error_info"
    /\ pc = "start"
    /\ pc' = "done"
    /\ error_result' = ParseErrorInfo(hex_data)
    /\ UNCHANGED <<op, log_src, log_text, entries, hex_data, count_result,
                   banknote_result, parsed_logs, event_codes, analyze_result>>

analyze_events ==
    /\ op = "analyze_events"
    /\ pc = "start"
    /\ pc' = "done"
    /\ analyze_result' = AnalyzeEvents(parsed_logs, event_codes)
    /\ UNCHANGED <<op, log_src, log_text, entries, hex_data, count_result,
                   banknote_result, error_result, parsed_logs, event_codes>>

Next ==
    \/ parse_log
    \/ parse_count_info
    \/ parse_banknote_info
    \/ parse_error_info
    \/ analyze_events

Spec == Init /\ [][Next]_vars

----------------------------------------------------------------------------
(* What the claims about parse_log speak of, read off the blocks the text  *)
(* was written from.                                                       *)

Returned(o) == op = o /\ pc = "done"
Finished(o) == op = o /\ pc # "start"

\* a block with a matching header that states a time of day, and at least
\* one more line
WellFormedBlock(b) == b.header = GoodHeader /\ Len(b.lines) >= 1

IsDumpLine(l) == l.label # <<>>

\* a token of exactly two hex digits
IsByteToken(t) == Len(t) = 2 /\ IsBase16(t)

HasMalformedToken(b) ==
    \E k \in 1..Len(b.lines) :
        /\ IsDumpLine(b.lines[k])
        /\ \E t \in 1..Len(b.lines[k].toks) : ~IsBase16(b.lines[k].toks[t])

\* a valid block: every line after the header is LABELh BB BB ... followed
\* by trailing text, and is no HEX DUMP marker line
ValidDumpBlock(b) ==
    /\ WellFormedBlock(b)
    /\ \A k \in 1..Len(b.lines) :
          /\ IsDumpLine(b.lines[k])
          /\ b.lines[k].trail # <<>>
          /\ b.lines[k] # MarkerLine
          /\ \A t \in 1..Len(b.lines[k].toks) : IsByteToken(b.lines[k].toks[t])

\* the byte tokens of the block's dump lines, in order, joined by blanks
RECURSIVE DumpTokens(_, _)
DumpTokens(b, k) ==
    IF k > Len(b.lines) THEN <<>>
    ELSE b.lines[k].toks \o DumpTokens(b, k + 1)

RawBlocks == [k \in 1..Len(entries) |-> entries[k].raw_block]

RenderedWellFormed ==
    LET good == SelectSeq(log_src, WellFormedBlock)
    IN  [k \in 1..Len(good) |-> RenderBlock(good[k])]

\* C1 (as claimed): parse_log returns normally for every text, and every
\* well-formed block yields its entry whatever malformed blocks stand before
\* or after it.
C1_ParseNeverAborts ==
    Finished("parse_log") =>
        /\ pc = "done"
        /\ \A k \in 1..Len(RenderedWellFormed) :
              \E e \in 1..Len(entries) : RawBlocks[e] = RenderedWellFormed[k]

\* C2 (as claimed): a malformed hex token in a dump line fails the whole
\* block: no entry is produced for a block that holds one.
C2_MalformedTokenFailsBlock ==
    Returned("parse_log") =>
        \A i \in 1..Len(log_src) :
            (WellFormedBlock(log_src[i]) /\ HasMalformedToken(log_src[i])) =>
                \A e \in 1..Len(entries) :
                    RawBlocks[e] # RenderBlock(log_src[i])

\* C3 (as claimed): every element of every entry's hex_data is in 0..255.
C3_BytesInRange ==
    Returned("parse_log") =>
        \A e \in 1..Len(entries) :
            \A k \in 1..Len(entries[e].hex_data) :
                entries[e].hex_data[k] \in 0..255

\* C4 (as claimed): for every valid block, hex_data written back as two-digit
\* hex joined by blanks is exactly the byte tokens of the block's dump lines
\* in their order.
C4_RoundTrip ==
    Returned("parse_log") =>
        \A i \in 1..Len(log_src) : \A e \in 1..Len(entries) :
            (ValidDumpBlock(log_src[i])
                 /\ RawBlocks[e] = RenderBlock(log_src[i])) =>
                HexStr(entries[e].hex_data)
                    = Join(DumpTokens(log_src[i], 1), <<" ">>)

----------------------------------------------------------------------------
(* What the claims about the decoders speak of: the payload is the         *)
(* decoder's argument without its first three bytes.                       *)

PayloadLen == Len(hex_data) - 3

\* payload byte at offset i, counted from 0
PayloadAt(i) == hex_data[i + 4]

\* two payload bytes, low byte first
PayloadLE(i) == PayloadAt(i) + 256 * PayloadAt(i + 1)

HasKey(r, k) == k \in DOMAIN r

KDKeys ==
    {"format", "raw_data", "insert_count_last", "deposit_count_last",
     "reject_count_last", "insert_try_count", "insert_count_total",
     "deposit_count_total", "reject_count_total"}

KR1Keys ==
    {"format", "raw_data", "reject_count", "cassette_count", "drum1_count",
     "drum2_count", "drum3_count", "drum4_count"}

KR2Keys ==
    {"format", "raw_data", "insert_count_last", "reject_count_last",
     "cassette_count_last", "drum_direction", "drum1_count_last",
     "drum2_count_last", "drum3_count_last", "drum4_count_last",
     "cassette_count_total", "drum1_count_total", "drum2_count_total",
     "drum3_count_total", "drum4_count_total"}

\* the variant the claim assigns to a payload length, with its keys
VariantOfLength(L) ==
    IF L \in {10, 11} THEN [format |-> "KD", keys |-> KDKeys]
    ELSE IF L = 12 THEN [format |-> "KR1", keys |-> KR1Keys]
    ELSE IF L >= 15 THEN [format |-> "KR2", keys |-> KR2Keys]
    ELSE [format |-> "unknown", keys |-> {"format", "raw_data"}]

VariantIsOfLength ==
    /\ HasKey(count_result, "format")
    /\ count_result.format = VariantOfLength(PayloadLen).format
    /\ DOMAIN count_result = VariantOfLength(PayloadLen).keys

\* C5 (as claimed): for every byte sequence of at least 4 elements the
\* variant is the one of the payload length, lengths outside 10, 11, 12 and
\* 15.. giving the unknown format with no decoded fields.
C5_VariantForFourOrMore ==
    (Returned("parse_count_info") /\ Len(hex_data) >= 4) => VariantIsOfLength

\* C5 (amended): for every byte sequence of at least 7 elements (payload
\* length L >= 4) the variant is the one of L: KD for 10 and 11, KR1 for 12,
\* KR2 for 15 and more, the unknown format with no decoded fields for every
\* other L; exactly one variant's fields are set and the call returns.  Byte
\* sequences of 4 to 6 elements give the failure value instead.
C5_VariantByLength ==
    /\ Finished("parse_count_info") => pc = "done"
    /\ (Returned("parse_count_info") /\ Len(hex_data) >= 7) => VariantIsOfLength
    /\ (Returned("parse_count_info") /\ Len(hex_data) \in 4..6) =>
           DOMAIN count_result = {"error"}

C5_Witness ==
    /\ Returned("parse_count_info")
    /\ PayloadLen = 14
    /\ count_result.format = "unknown"

\* C6: parse_count_info returns the failure value, a result carrying only
\* error, if and only if the byte sequence has fewer than 7 elements; for 7
\* or more it returns a format tag and the raw payload hex_data[3:].
C6_CountFailureIffShort ==
    Returned("parse_count_info") =>
        /\ HasKey(count_result, "error") <=> Len(hex_data) < 7
        /\ HasKey(count_result, "error") => DOMAIN count_result = {"error"}
        /\ Len(hex_data) >= 7 =>
              /\ HasKey(count_result, "format")
              /\ count_result.raw_data = SubSeq(hex_data, 4, Len(hex_data))

C6_Witness ==
    /\ Returned("parse_count_info")
    /\ Len(hex_data) = 6
    /\ HasKey(count_result, "error")

\* C7: for a payload p of length 10 or 11 the result is KD with the four
\* last-cycle counts p[0..3] and the three totals p[4]+256*p[5],
\* p[6]+256*p[7], p[8]+256*p[9], all three always present, an 11th byte
\* ignored; the example payload gives 5, 8, 3, 2, 16, 100, 50.
C7_KDFields ==
    /\ (Returned("parse_count_info") /\ PayloadLen \in {10, 11}) =>
          /\ DOMAIN count_result = KDKeys
          /\ count_result.format = "KD"
          /\ count_result.insert_count_last = PayloadAt(0)
          /\ count_result.deposit_count_last = PayloadAt(1)
          /\ count_result.reject_count_last = PayloadAt(2)
          /\ count_result.insert_try_count = PayloadAt(3)
          /\ count_result.insert_count_total = PayloadLE(4)
          /\ count_result.deposit_count_total = PayloadLE(6)
          /\ count_result.reject_count_total = PayloadLE(8)
    /\ (Returned("parse_count_info") /\ hex_data = KDExample) =>
          /\ count_result.insert_count_last = 5
          /\ count_result.deposit_count_last = 8
          /\ count_result.reject_count_last = 3
          /\ count_result.insert_try_count = 2
          /\ count_result.insert_count_total = 16
          /\ count_result.deposit_count_total = 100
          /\ count_result.reject_count_total = 50

C7_Witness ==
    /\ Returned("parse_count_info")
    /\ hex_data = KDExample
    /\ count_result.format = "KD"

\* C8: for a payload p of exactly 12 bytes in 0..255 the result is KR1 with
\* reject, cassette, drum1..drum4 equal to p[2k]+256*p[2k+1] for k = 0..5,
\* each in 0..65535.
C8_KR1Fields ==
    (/\ Returned("parse_count_info")
     /\ PayloadLen = 12
     /\ \A k \in 1..Len(hex_data) : hex_data[k] \in 0..255) =>
        /\ DOMAIN count_result = KR1Keys
        /\ count_result.format = "KR1"
        /\ count_result.reject_count = PayloadLE(0)
        /\ count_result.cassette_count = PayloadLE(2)
        /\ count_result.drum1_count = PayloadLE(4)
        /\ count_result.drum2_count = PayloadLE(6)
        /\ count_result.drum3_count = PayloadLE(8)
        /\ count_result.drum4_count = PayloadLE(10)
        /\ \A key \in KR1Keys \ {"format", "raw_data"} :
              count_result[key] \in 0..65535

C8_Witness ==
    /\ Returned("parse_count_info")
    /\ PayloadLen = 12
    /\ count_result.drum4_count = 65535
    /\ count_result.reject_count = 255

\* C9: for a payload p of 15 bytes or more the result is KR2 read from
\* p[0..14] alone: insert and reject last p[0], p[1]; cassette last
\* p[2]+256*p[3]; direction deposit iff p[4] = 1, else dispense; drum1..4
\* last p[5..8]; cassette total p[9]+256*p[10]; drum1..4 total p[11..14].
C9_KR2Fields ==
    (Returned("parse_count_info") /\ PayloadLen >= 15) =>
        /\ DOMAIN count_result = KR2Keys
        /\ count_result.format = "KR2"
        /\ count_result.insert_count_last = PayloadAt(0)
        /\ count_result.reject_count_last = PayloadAt(1)
        /\ count_result.cassette_count_last = PayloadLE(2)
        /\ count_result.drum_direction =
               (IF PayloadAt(4) = 1 THEN "deposit" ELSE "dispense")
        /\ count_result.drum1_count_last = PayloadAt(5)
        /\ count_result.drum2_count_last = PayloadAt(6)
        /\ count_result.drum3_count_last = PayloadAt(7)
        /\ count_result.drum4_count_last = PayloadAt(8)
        /\ count_result.cassette_count_total = PayloadLE(9)
        /\ count_result.drum1_count_total = PayloadAt(11)
        /\ count_result.drum2_count_total = PayloadAt(12)
        /\ count_result.drum3_count_total = PayloadAt(13)
        /\ count_result.drum4_count_total = PayloadAt(14)

C9_Witness ==
    /\ Returned("parse_count_info")
    /\ PayloadLen > 15
    /\ PayloadAt(4) = 255
    /\ PayloadAt(15) # 255
    /\ count_result.drum_direction = "dispense"

\* C10: parse_banknote_info returns the failure value if and only if the
\* byte sequence has fewer than 61 elements (58, 59 and 60 fail although
\* they pass the first check); for 61 or more it returns a decoded record.
C10_BanknoteFailureIffShort ==
    /\ Finished("parse_banknote_info") => pc = "done"
    /\ Returned("parse_banknote_info") =>
          /\ HasKey(banknote_result, "error") <=> Len(hex_data) < 61
          /\ HasKey(banknote_result, "error") =>
                DOMAIN banknote_result = {"error"}
          /\ Len(hex_data) >= 61 =>
                /\ HasKey(banknote_result, "banknote_no")
                /\ HasKey(banknote_result, "sc_error")
                /\ HasKey(banknote_result, "serial_text")

C10_Witness ==
    /\ Returned("parse_banknote_info")
    /\ Len(hex_data) \in 58..60
    /\ HasKey(banknote_result, "error")

\* the raw fields of a banknote record in the order of the claim, each with
\* its size in bytes
BanknoteLayout ==
    <<[name |-> "banknote_no", size |-> 1],
      [name |-> "recognition_code", size |-> 4],
      [name |-> "recognition_error", size |-> 2],
      [name |-> "encoder", size |-> 4],
      [name |-> "note_destination", size |-> 1],
      [name |-> "reserved1", size |-> 1],
      [name |-> "reserved2", size |-> 3],
      [name |-> "serial_size", size |-> 1],
      [name |-> "serial", size |-> 32],
      [name |-> "denom_info", size |-> 4],
      [name |-> "denom_use_flag", size |-> 1],
      [name |-> "decimal_point", size |-> 1],
      [name |-> "banknote_extens", size |-> 2],
      [name |-> "sc_error", size |-> 1]>>

\* the payload offset the k-th field starts at when the fields follow one
\* another without gap or overlap
RECURSIVE LayoutStart(_)
LayoutStart(k) ==
    IF k = 1 THEN 0 ELSE LayoutStart(k - 1) + BanknoteLayout[k - 1].size

\* the bytes a decoded raw field holds: a field of one byte is a number, a
\* longer field a list
FieldBytes(r, k) ==
    IF BanknoteLayout[k].size = 1 THEN <<r[BanknoteLayout[k].name]>>
    ELSE r[BanknoteLayout[k].name]

RawFieldNames == {BanknoteLayout[k].name : k \in 1..Len(BanknoteLayout)}

DerivedFieldNames == {"destination_text", "sc_error_text", "serial_text"}

\* C11: for every byte sequence of 61 or more elements the 14 raw fields of
\* parse_banknote_info, in the order of the claim, hold consecutive runs of
\* the payload starting at offset 0, their sizes sum to 58, so that every
\* offset 0..57 belongs to exactly one field and no byte at offset 58 or
\* beyond is in any field.
C11_FieldsPartitionPayload ==
    (Returned("parse_banknote_info") /\ Len(hex_data) >= 61) =>
        /\ DOMAIN banknote_result = RawFieldNames \cup DerivedFieldNames
        /\ Cardinality(RawFieldNames) = 14
        /\ LayoutStart(14) + BanknoteLayout[14].size = 58
        /\ \A k \in 1..14 :
              FieldBytes(banknote_result, k) =
                  [j \in 1..BanknoteLayout[k].size |->
                      PayloadAt(LayoutStart(k) + j - 1)]

\* a record decoded from a payload of 59 bytes whose byte at offset 58 is
\* not the one of the ramp
C11_Witness ==
    /\ Returned("parse_banknote_info")
    /\ Len(hex_data) = 62
    /\ PayloadAt(58) = 0
    /\ PayloadAt(57) = 77
    /\ banknote_result.sc_error = 77
    /\ banknote_result.serial[32] = PayloadAt(48)

\* the character the claim assigns to a serial byte
SerialChar(b) == IF b \in 32..126 THEN Chr(b) ELSE "?"

\* C12: when the serial length n (payload offset 16) satisfies 0 < n <= 32,
\* serial_text has exactly n characters, the k-th being the ASCII character
\* of serial byte k (payload offset 16 + k) if that byte is in 32..126 and
\* a question mark otherwise, whatever the serial bytes beyond the n-th are;
\* when n = 0 or n > 32 serial_text is the not-applicable marker.  Length 5
\* with the bytes of ABCDE gives ABCDE.
C12_SerialText ==
    (Returned("parse_banknote_info") /\ Len(hex_data) >= 61) =>
        LET n == PayloadAt(16)
            text == banknote_result.serial_text
        IN  /\ (0 < n /\ n <= 32) =>
                  /\ Len(text) = n
                  /\ \A k \in 1..n : text[k] = SerialChar(PayloadAt(16 + k))
            /\ (n = 0 \/ n > 32) => text = <<"N", "/", "A">>
            /\ (/\ n = 5
                /\ [k \in 1..5 |-> PayloadAt(16 + k)] = <<65, 66, 67, 68, 69>>)
                  => text = <<"A", "B", "C", "D", "E">>

\* serial length 5, the bytes of ABCDE, and a sixth serial byte that is not
\* the one of the sample
C12_Witness ==
    /\ Returned("parse_banknote_info")
    /\ Len(hex_data) = 61
    /\ PayloadAt(16) = 5
    /\ [k \in 1..5 |-> PayloadAt(16 + k)] = <<65, 66, 67, 68, 69>>
    /\ PayloadAt(22) = 0
    /\ banknote_result.serial_text = <<"A", "B", "C", "D", "E">>

\* the destination texts of codes 0..5 and the status texts of codes 0..9
DestinationNames == <<"Reject", "Cassette", "Drum1", "Drum2", "Drum3", "Drum4">>

StatusNames ==
    <<"none", "recognition error", "rejected: SC option",
      "rejected: recognition information lost", "rejected: chain",
      "rejected: oversize", "rejected: wrong stacker",
      "rejected: batch amount full", "rejected: denomination counter full",
      "rejected: banknote denomination mismatch">>

\* C13: the destination text is taken from payload byte 11 by a map of 6
\* entries (0 Reject, 1 Cassette, 2..5 Drum1..Drum4) and is the unknown
\* text for every other value; the status text is taken from payload byte
\* 57 by a map of 10 entries (0 none, 1..9 the rejection reasons) and is
\* the unknown-status text for every other value; both texts are present
\* for every decoded record.
C13_DestinationAndStatusText ==
    (Returned("parse_banknote_info") /\ Len(hex_data) >= 61) =>
        LET dest == PayloadAt(11)
            status == PayloadAt(57)
        IN  /\ HasKey(banknote_result, "destination_text")
            /\ HasKey(banknote_result, "sc_error_text")
            /\ banknote_result.destination_text =
                  (IF dest \in 0..5 THEN DestinationNames[dest + 1]
                   ELSE "unknown")
            /\ banknote_result.sc_error_text =
                  (IF status \in 0..9 THEN StatusNames[status + 1]
                   ELSE "unknown error")
            /\ Len(DestinationNames) = 6 /\ Len(StatusNames) = 10
            /\ "unknown" \notin {DestinationNames[k] : k \in 1..6}
            /\ "unknown error" \notin {StatusNames[k] : k \in 1..10}

\* the last entry of the status map, with a destination outside the map
C13_Witness ==
    /\ Returned("parse_banknote_info")
    /\ Len(hex_data) = 61
    /\ PayloadAt(57) = 9
    /\ PayloadAt(11) = 31
    /\ banknote_result.sc_error_text = "rejected: banknote denomination mismatch"
    /\ banknote_result.destination_text = "unknown"

----------------------------------------------------------------------------
(* What the claims about parse_error_info speak of.                        *)

ErrorDecoded == Returned("parse_error_info") /\ ~HasKey(error_result, "error")

\* the number of flag records the claim assigns to the payload
FlagCount == IF PayloadLen < 60 THEN PayloadLen ELSE 60

Range(s) == {s[k] : k \in 1..Len(s)}

\* C14: for a payload of length L >= 1 parse_error_info returns exactly
\* min(L, 60) flag records, those of the table indices 0..min(L, 60) - 1 in
\* table order, record i holding the value payload[i]; no record exists for
\* an index at or beyond the payload length, payload bytes at index 60 or
\* beyond are in no record, and a short payload gives a result, not the
\* failure value.
C14_OneRecordPerPayloadByte ==
    (Returned("parse_error_info") /\ PayloadLen >= 1) =>
        /\ ErrorDecoded
        /\ Len(error_fields) = 60
        /\ \A i, j \in 1..60 :
              error_fields[i].name = error_fields[j].name => i = j
        /\ Len(error_result.fields) = FlagCount
        /\ \A i \in 0..FlagCount - 1 :
              /\ error_result.fields[i + 1].key = error_fields[i + 1].name
              /\ error_result.fields[i + 1].item.value = PayloadAt(i)
        /\ FlagCount >= 1 => error_result.fields[1].key = "reverse_motor"
        /\ FlagCount >= 33 =>
              error_result.fields[33].key = "banknote_trans_fail"
        /\ FlagCount = 60 => error_result.fields[60].key = "reserved8"

\* a payload of 5 bytes, none of them zero: 5 records
C14_Witness ==
    /\ Returned("parse_error_info")
    /\ PayloadLen = 5
    /\ ErrorDecoded
    /\ Len(error_result.fields) = 5
    /\ error_result.fields[5].key = "reject_shutter"
    /\ error_result.fields[5].item.value = 3

\* C15: parse_error_info returns the failure value if and only if the byte
\* sequence has fewer than 4 elements; for 4 or more elements it returns a
\* result with fields, active_errors, active_error_count and
\* errors_detected.
C15_ErrorFailureIffShort ==
    /\ Finished("parse_error_info") => pc = "done"
    /\ Returned("parse_error_info") =>
          /\ HasKey(error_result, "error") <=> Len(hex_data) < 4
          /\ HasKey(error_result, "error") =>
                /\ DOMAIN error_result = {"error"}
                /\ error_result.error = "incomplete error data"
          /\ Len(hex_data) >= 4 =>
                DOMAIN error_result =
                    {"raw_data", "errors_detected", "fields", "active_errors",
                     "active_error_count"}

\* the longest sequence that fails
C15_Witness ==
    /\ Returned("parse_error_info")
    /\ Len(hex_data) = 3
    /\ hex_data[3] = 3
    /\ error_result = [error |-> "incomplete error data"]

\* the description of flag 32 and the texts of its sub-code table, values
\* 1..8 and 16..21
TransFailDescription == "Banknote transport failure"

SubCodeLow ==
    <<"BID mismatch error", "wrong stacker error (upper module separator)",
      "banknote tear error", "double chain error", "dark chain error",
      "white chain error", "insert error", "batch amount full">>

SubCodeHigh ==
    <<"wrong stacker error on reject (dispense)",
      "cassette wrong stacker error", "drum 1 wrong stacker error",
      "drum 2 wrong stacker error", "drum 3 wrong stacker error",
      "drum 4 wrong stacker error">>

\* the text the claim assigns to a non-zero value of flag 32
SubCodeText(v) ==
    IF v \in 1..8 THEN SubCodeLow[v]
    ELSE IF v \in 16..21 THEN SubCodeHigh[v - 15]
    ELSE "unknown error code: " \o ToString(v)

\* every text flag 32 can add to active_errors
TransFailTexts ==
    {TransFailDescription \o ": " \o t :
        t \in {SubCodeText(v) : v \in ByteValues} \cup {"none"}}

TransFailActive == Range(error_result.active_errors) \cap TransFailTexts # {}

\* C16 (as claimed): flag 32 adds an active error if and only if its value
\* is non-zero, and the text of that active error is the sub-code table
\* entry for the values 1..8 and 16..21 and the unknown-code text with the
\* value for every other non-zero value; the value 3 gives the banknote
\* tear text.
C16_TransFailTextIsSubCode ==
    (ErrorDecoded /\ PayloadLen > 32) =>
        /\ TransFailActive <=> PayloadAt(32) # 0
        /\ PayloadAt(32) # 0 =>
              SubCodeText(PayloadAt(32)) \in Range(error_result.active_errors)
        /\ PayloadAt(32) = 3 =>
              "banknote tear error" \in Range(error_result.active_errors)

\* C16 (amended): flag 32 adds an active error if and only if its value is
\* non-zero; its specific description is the sub-code table entry for the
\* values 1..8 and 16..21 and the unknown-code text with the value for
\* every other non-zero value; the text of the active error is the
\* description of the flag, a colon and a blank, and the specific
\* description.  The value 3 gives the banknote tear text after the
\* description, whatever the other payload bytes are.
C16_TransFailText ==
    (ErrorDecoded /\ PayloadLen > 32) =>
        LET v == PayloadAt(32)
            flag == error_result.fields[33]
        IN  /\ flag.key = "banknote_trans_fail"
            /\ flag.item.description = TransFailDescription
            /\ TransFailActive <=> v # 0
            /\ v = 0 => ~HasKey(flag.item, "specific_desc")
            /\ v # 0 =>
                  /\ HasKey(flag.item, "specific_desc")
                  /\ flag.item.specific_desc = SubCodeText(v)
                  /\ (TransFailDescription \o ": " \o SubCodeText(v))
                        \in Range(error_result.active_errors)
            /\ v = 3 =>
                  "Banknote transport failure: banknote tear error"
                      \in Range(error_result.active_errors)

\* the value 3 in flag 32 among flags that are all 1
C16_Witness ==
    /\ ErrorDecoded
    /\ PayloadLen > 32
    /\ PayloadAt(32) = 3
    /\ PayloadAt(31) = 1
    /\ PayloadAt(33) = 1
    /\ error_result.active_errors[33] =
          "Banknote transport failure: banknote tear error"

\* the text flag i adds to active_errors when it is active by its generic
\* meaning
GenericText(i) ==
    error_fields[i + 1].description \o ": " \o error_fields[i + 1].error_desc

\* C17: every flag other than flag 32 adds an active error if and only if
\* its value is exactly 1 and its table entry has a non-empty error_desc:
\* the flags 0..31 and 33..51 (whose error_desc is not empty) for the value
\* 1 and for no other value, the reserved flags 52..59 (whose error_desc is
\* empty) for no value.
C17_GenericFlagActiveIffOne ==
    ErrorDecoded =>
        /\ \A i \in (0..51) \ {32} :
              /\ error_fields[i + 1].error_desc # ""
              /\ \A j \in (0..51) \ {i} :
                    error_fields[j + 1].description
                        # error_fields[i + 1].description
        /\ \A i \in 52..59 :
              /\ error_fields[i + 1].error_desc = ""
              /\ error_fields[i + 1].description = "Reserved"
        /\ \A i \in (0..FlagCount - 1) \ {32} :
              GenericText(i) \in Range(error_result.active_errors)
                  <=> (/\ PayloadAt(i) = 1
                       /\ error_fields[i + 1].error_desc # "")
        /\ "Reserved: " \notin Range(error_result.active_errors)
        /\ Cardinality({i \in (0..FlagCount - 1) \ {32} : PayloadAt(i) = 1
                           /\ i < 52})
              + (IF TransFailActive THEN 1 ELSE 0)
              = error_result.active_error_count

\* flag 0 with the value 2 and a reserved flag with the value 1, neither
\* active, beside flag 1 with the value 1, active
C17_Witness ==
    /\ ErrorDecoded
    /\ PayloadLen >= 60
    /\ PayloadAt(0) = 2
    /\ PayloadAt(1) = 1
    /\ PayloadAt(52) = 1
    /\ error_result.active_errors[1] = "Insert motor: Error"
    /\ error_result.active_error_count = 51

\* whether a flag record of the result is one of an active flag, and the
\* text of its active error
RecordActive(f) ==
    \/ f.key = "banknote_trans_fail" /\ f.item.value > 0
    \/ f.key # "banknote_trans_fail" /\ f.item.value = 1
          /\ f.item.error_desc # ""

RecordText(f) ==
    IF f.key = "banknote_trans_fail"
    THEN f.item.description \o ": " \o f.item.specific_desc
    ELSE f.item.description \o ": " \o f.item.error_desc

\* C18: in every result of parse_error_info active_errors holds exactly one
\* item per active flag, in ascending order of the table index;
\* active_error_count is the length of active_errors; errors_detected is
\* true if and only if active_error_count is not zero.
C18_ActiveErrorsInTableOrder ==
    ErrorDecoded =>
        LET active == SelectSeq(error_result.fields, RecordActive)
        IN  /\ error_result.active_errors =
                  [k \in 1..Len(active) |-> RecordText(active[k])]
            /\ error_result.active_error_count =
                  Len(error_result.active_errors)
            /\ error_result.errors_detected
                  <=> error_result.active_error_count # 0

\* every flag active that can be, flag 32 between its neighbours
C18_Witness ==
    /\ ErrorDecoded
    /\ PayloadLen >= 60
    /\ PayloadAt(32) = 3
    /\ error_result.active_error_count = 52
    /\ error_result.errors_detected
    /\ SubSeq(error_result.active_errors, 32, 34) =
          <<"Main transport motor check sensor: Error",
            "Banknote transport failure: banknote tear error",
            "Cassette pusher error: Error">>

\* C19: for a payload whose bytes are all zero, of any length from 1 on
\* (beyond 60 included), parse_error_info returns errors_detected = false,
\* active_error_count = 0 and an empty active_errors.
C19_ZeroPayloadNoErrors ==
    (/\ Returned("parse_error_info")
     /\ PayloadLen >= 1
     /\ \A i \in 0..PayloadLen - 1 : PayloadAt(i) = 0) =>
        /\ ErrorDecoded
        /\ error_result.errors_detected = FALSE
        /\ error_result.active_error_count = 0
        /\ error_result.active_errors = <<>>

\* a payload of more than 60 zero bytes after a header byte that is not zero
C19_Witness ==
    /\ ErrorDecoded
    /\ PayloadLen > 60
    /\ \A i \in 0..PayloadLen - 1 : PayloadAt(i) = 0
    /\ hex_data[3] = 255
    /\ Len(error_result.fields) = 60
    /\ error_result.active_error_count = 0
    /\ ~error_result.errors_detected

----------------------------------------------------------------------------
(* The event code and the payload.                                         *)

\* the byte sequence without its first three elements
PayloadOf(hex) == SubSeq(hex, 4, Len(hex))

\* C20: an entry of parse_log holds an event code if and only if its byte
\* sequence has more than 2 elements, and the code is then the third
\* element (index 2) of that sequence; the payload each decoder works on is
\* the byte sequence from index 3 on, so that the event code byte is the
\* element just before the payload and no part of it.
C20_EventCodePrecedesPayload ==
    /\ Returned("parse_log") =>
          \A k \in 1..Len(entries) :
              /\ HasKey(entries[k], "event_code")
                    <=> Len(entries[k].hex_data) > 2
              /\ HasKey(entries[k], "event_code") =>
                    entries[k].event_code = entries[k].hex_data[3]
    /\ (Returned("parse_count_info") /\ ~HasKey(count_result, "error")) =>
          count_result.raw_data = PayloadOf(hex_data)
    /\ (Returned("parse_banknote_info") /\ ~HasKey(banknote_result, "error")) =>
          /\ banknote_result.banknote_no = PayloadOf(hex_data)[1]
          /\ banknote_result.sc_error = PayloadOf(hex_data)[58]
    /\ (Returned("parse_error_info") /\ ~HasKey(error_result, "error")) =>
          /\ error_result.raw_data = PayloadOf(hex_data)
          /\ error_result.fields[1].item.value = PayloadOf(hex_data)[1]

\* a text of two entries, one with three bytes and the event code 0x24, one
\* with no byte and no event code
C20_Witness ==
    /\ Returned("parse_log")
    /\ Len(entries) = 2
    /\ \E k \in 1..2 :
          /\ entries[k].hex_data = <<16, 2, 36>>
          /\ entries[k].event_code = 36
    /\ \E k \in 1..2 :
          /\ Len(entries[k].hex_data) <= 2
          /\ ~HasKey(entries[k], "event_code")

----------------------------------------------------------------------------
(* The blocks of a text and the entries of parse_log.                      *)

\* a block parse_log discards: no line after the header, or a first line
\* that does not match the header pattern
DiscardedBlock(b) == Len(b.lines) = 0 \/ b.header = NoMatchHeader

AcceptedBlocks == SelectSeq(log_src, LAMBDA b : ~DiscardedBlock(b))

\* the blocks without the i-th
WithoutBlock(src, i) ==
    [k \in 1..Len(src) - 1 |-> IF k < i THEN src[k] ELSE src[k + 1]]

\* C21: a block with fewer than two lines, or whose first line does not
\* match the header pattern, contributes no entry, and parse_log goes on
\* with the next block: what it returns (or its exception) is what it
\* returns for the text without that block.
C21_DiscardedBlockLeavesNoTrace ==
    Finished("parse_log") =>
        \A i \in 1..Len(log_src) :
            DiscardedBlock(log_src[i]) =>
                LET other == ParseLog(RenderText(WithoutBlock(log_src, i)))
                IN  /\ other.raised <=> pc = "raised"
                    /\ other.entries = entries
                    /\ \A e \in 1..Len(entries) :
                          RawBlocks[e] # RenderBlock(log_src[i])

\* a block whose first line does not match, before a block that yields an
\* entry
C21_Witness ==
    /\ Returned("parse_log")
    /\ Len(log_src) = 2
    /\ log_src[1].header = NoMatchHeader
    /\ Len(log_src[1].lines) = 2
    /\ ~DiscardedBlock(log_src[2])
    /\ Len(entries) = 1
    /\ entries[1].hex_data = <<16, 2, 36>>

\* C22: the entries parse_log returns are in the order of the blocks of the
\* text: entry k is the entry of the k-th accepted block, every accepted
\* block has exactly one entry, and equal accepted blocks have an entry
\* each.
C22_EntriesInBlockOrder ==
    Returned("parse_log") =>
        /\ Len(entries) = Len(AcceptedBlocks)
        /\ \A k \in 1..Len(entries) :
              /\ entries[k].raw_block = RenderBlock(AcceptedBlocks[k])
              /\ entries[k] = BlockEntry(RenderBlock(AcceptedBlocks[k]))

\* two accepted blocks with different bytes, and a text of two equal blocks
C22_Witness ==
    /\ Returned("parse_log")
    /\ Len(log_src) = 2
    /\ log_src[1] = log_src[2]
    /\ Len(entries) = 2
    /\ entries[1] = entries[2]
    /\ entries[1].event_code = 36

\* the bytes a line of the samples contributes: the hex-byte group the
\* dump-line pattern captures in it
LineBytes(l) ==
    CASE l = PlainLine -> <<16, 2, 36>>
      [] l = AsciiLine -> <<65, 32, 66, 10>>
      [] l = WideLine -> <<511, 2>>
      [] l = MalformedLine -> <<1>>
      [] l = MarkerLine -> <<>>
      [] l = TextLine -> <<>>

RECURSIVE BlockBytes(_, _)
BlockBytes(b, k) ==
    IF k > Len(b.lines) THEN <<>>
    ELSE LineBytes(b.lines[k]) \o BlockBytes(b, k + 1)

\* C23: the hex_data of an entry is the concatenation of the hex-byte groups
\* of the dump lines of its block, in the order of the lines and, within a
\* line, from left to right; a line that holds HEX DUMP contributes no byte
\* although it has the shape of a dump line, and a line that has not that
\* shape contributes no byte and does not end the scan.
C23_BytesInLineOrder ==
    Returned("parse_log") =>
        /\ Len(entries) = Len(AcceptedBlocks)
        /\ \A k \in 1..Len(entries) :
              entries[k].hex_data = BlockBytes(AcceptedBlocks[k], 1)

\* a block of a line that is no dump line and a dump line after it
C23_Witness ==
    /\ Returned("parse_log")
    /\ Len(log_src) = 1
    /\ log_src[1].lines = <<TextLine, AsciiLine>>
    /\ Len(entries) = 1
    /\ entries[1].hex_data = <<65, 32, 66, 10>>

----------------------------------------------------------------------------
(* What the claims about analyze_events speak of.                          *)

\* the codes analyze_events is asked for: the keys of event_codes, or those
\* of the default of lines 79-83
KnownCodes ==
    IF event_codes = <<>> THEN {36, 35, 48} ELSE DOMAIN event_codes[1]

HasKnownCode(e) == HasKey(e, "event_code") /\ e.event_code \in KnownCodes

Groups == analyze_result.events_by_code

\* C24: every entry whose event_code is present and is a key of the known
\* codes is exactly once in the group of that code and in no other group,
\* in the relative order of the input; an entry with no event_code or with
\* another code is in no group; the sizes of the groups sum to the number
\* of entries with a known code.
C24_GroupsPartitionKnownEntries ==
    Returned("analyze_events") =>
        /\ DOMAIN Groups = KnownCodes
        /\ \A c \in KnownCodes :
              /\ Groups[c] =
                    SelectSeq(parsed_logs,
                              LAMBDA e : HasKey(e, "event_code")
                                            /\ e.event_code = c)
              /\ \A k \in 1..Len(Groups[c]) :
                    /\ HasKey(Groups[c][k], "event_code")
                    /\ Groups[c][k].event_code = c
        /\ Cardinality({<<c, k>> \in KnownCodes \X (1..Len(parsed_logs)) :
                           k <= Len(Groups[c])})
              = Cardinality({i \in 1..Len(parsed_logs) :
                                HasKnownCode(parsed_logs[i])})

\* two entries of code 0x24 around an entry with no event code, under the
\* default codes
C24_Witness ==
    /\ Returned("analyze_events")
    /\ event_codes = <<>>
    /\ Len(parsed_logs) = 3
    /\ ~HasKey(parsed_logs[2], "event_code")
    /\ Groups[36] = <<parsed_logs[1], parsed_logs[3]>>
    /\ parsed_logs[1] # parsed_logs[3]
    /\ Groups[35] = <<>>

Summary == analyze_result.event_summary

\* C25: analyze_events returns a summary record for every known code and
\* for no other code, with count the size of the code's group; for a code
\* with no entry (an empty entry list included) count is 0 and
\* first_occurrence and last_occurrence are None; no exception is raised.
C25_SummaryForEveryKnownCode ==
    /\ Finished("analyze_events") => pc = "done"
    /\ Returned("analyze_events") =>
          /\ DOMAIN Summary = KnownCodes
          /\ \A c \in KnownCodes :
                /\ Summary[c].count = Len(Groups[c])
                /\ Summary[c].count =
                      Cardinality({i \in 1..Len(parsed_logs) :
                                      /\ HasKey(parsed_logs[i], "event_code")
                                      /\ parsed_logs[i].event_code = c})
                /\ Summary[c].count = 0 =>
                      /\ Summary[c].first_occurrence = <<>>
                      /\ Summary[c].last_occurrence = <<>>
                /\ Summary[c].count # 0 =>
                      /\ Summary[c].first_occurrence # <<>>
                      /\ Summary[c].last_occurrence # <<>>

\* an empty entry list under the default codes: three records of count 0
C25_Witness ==
    /\ Returned("analyze_events")
    /\ parsed_logs = <<>>
    /\ event_codes = <<>>
    /\ DOMAIN Summary = {36, 35, 48}
    /\ \A c \in DOMAIN Summary :
          Summary[c].count = 0 /\ Summary[c].first_occurrence = <<>>

\* C26 (as claimed): when event_codes is left out the known codes are the
\* event codes the decoders are dispatched on (0x24, 0x23 and 0x48), and an
\* entry with event code 0x48 is grouped and counted under that code.
C26_DefaultCodesAreDecodedCodes ==
    (Returned("analyze_events") /\ event_codes = <<>>) =>
        /\ DOMAIN Groups = DecodedEventCodes
        /\ DOMAIN Summary = DecodedEventCodes
        /\ \A i \in 1..Len(parsed_logs) :
              (HasKey(parsed_logs[i], "event_code")
                  /\ parsed_logs[i].event_code = 72) =>
                 /\ 72 \in DOMAIN Groups
                 /\ \E k \in 1..Len(Groups[72]) : Groups[72][k] = parsed_logs[i]

----------------------------------------------------------------------------
(* The inputs of the operations.                                           *)

InputsUnchanged ==
    /\ log_text' = log_text
    /\ hex_data' = hex_data
    /\ parsed_logs' = parsed_logs
    /\ event_codes' = event_codes

ResultOfInputAlone ==
    /\ Returned("parse_count_info") => count_result = ParseCountInfo(hex_data)
    /\ Returned("parse_banknote_info") =>
          banknote_result = ParseBanknoteInfo(hex_data)
    /\ Returned("parse_error_info") => error_result = ParseErrorInfo(hex_data)
    /\ Returned("analyze_events") =>
          /\ analyze_result = AnalyzeEvents(parsed_logs, event_codes)
          /\ \A c \in DOMAIN Groups : \A k \in 1..Len(Groups[c]) :
                \E i \in 1..Len(parsed_logs) : Groups[c][k] = parsed_logs[i]

----------------------------------------------------------------------------
(* The occurrences of a code.                                              *)

\* a time of day in milliseconds since midnight (the header has three
\* fractional digits)
Millis(t) == ((t[1] * 60 + t[2]) * 60 + t[3]) * 1000 + t[4] \div 1000

----------------------------------------------------------------------------
(* Blocks without dump data.                                               *)

Dumpless(b) ==
    /\ b.header # NoMatchHeader
    /\ Len(b.lines) >= 1
    /\ \A l \in 1..Len(b.lines) : b.lines[l] \in {TextLine, MarkerLine}

\* C29 (as claimed): for a block whose header matches and whose further
\* lines hold no dump data, parse_log returns an entry with an empty
\* hex_data and no event_code.
C29_DumplessBlockYieldsEntry ==
    Finished("parse_log") =>
        \A i \in 1..Len(log_src) :
            Dumpless(log_src[i]) =>
                \E e \in 1..Len(entries) :
                    /\ RawBlocks[e] = RenderBlock(log_src[i])
                    /\ entries[e].hex_data = <<>>
                    /\ ~HasKey(entries[e], "event_code")

============================================================================
